---- MODULE Spec2Model ----
(***************************************************************************)
(* A model of pixelsort: the IntervalSet of src/src/interval.rs, the       *)
(* interval functions built on it (mask, random, split_equal), the sort    *)
(* keys of src/src/sorting.rs, the key selector of src/src/main.rs and     *)
(* sort_image of src/src/lib.rs.                                           *)
(*                                                                         *)
(* Ranges are records [start, end] standing for the half-open start..end;  *)
(* an IntervalSet is the sequence of its ranges (the Vec<Range<usize>>).   *)
(* Indices returned by the code are 0-based and are kept 0-based here;     *)
(* sequence positions are therefore index + 1.                             *)
(***************************************************************************)
EXTENDS Integers, Sequences, FiniteSets

VARIABLES
  pc,          \* position of the running call ("api", "call", "done", ...)
  set,         \* the IntervalSet the API calls act on
  last,        \* the most recent API call: operation, arguments, result, set before
  rows,        \* intervals: the row collection (a sequence of IntervalSets)
  rows0,       \* the row collection as it was when the call started
  msk,         \* the mask image: a sequence of rows of gray values
  img,         \* the image: a sequence of rows of pixels (a pixel is its channels)
  img0,        \* the image as it was when sort_image started
  key,         \* sorting_function
  scratch,     \* sort_image's scratch buffer
  row,         \* sort_image: index of the row being processed
  ri,          \* sort_image: position in set.iter() of the range being processed
  lower,       \* random: lower
  upper,       \* random: upper
  cur,         \* random: index of the set being processed
  width,       \* random: let width = set.end()
  acc,         \* random: let mut acc
  tick,        \* random: parity of the number of draws taken from thread_rng()
  part_count,  \* split_equal: part_count
  sorting,     \* main: the value of --sorting
  pixel,       \* the pixel handed to the selected sort key
  keyval       \* the key the selected function returned

vars == <<pc, set, last, rows, rows0, msk, img, img0, key, scratch, row, ri,
          lower, upper, cur, width, acc, tick, part_count, sorting, pixel, keyval>>

setVars == <<set, last>>
rowVars == <<rows, rows0>>
sortVars == <<img, img0, key, scratch, row, ri>>
randVars == <<lower, upper, cur, width, acc, tick>>
keyVars == <<sorting, pixel, keyval>>

(***************************************************************************)
(* Bounds of the model.                                                    *)
(***************************************************************************)
MaxSize == 4

SetMax(S) == CHOOSE x \in S : \A y \in S : y <= x

SetMin(S) == CHOOSE x \in S : \A y \in S : x <= y

Range(s, e) == [start |-> s, end |-> e]

(***************************************************************************)
(* IntervalSet                                                             *)
(***************************************************************************)
New(size) == << Range(0, size) >>

\* Vec::insert(idx, r) with idx 0-based
VecInsert(s, idx, r) == SubSeq(s, 1, idx) \o <<r>> \o SubSeq(s, idx + 1, Len(s))

\* Vec::remove(idx) with idx 0-based
VecRemove(s, idx) == SubSeq(s, 1, idx) \o SubSeq(s, idx + 2, Len(s))

\* Vec::drain(a..b): panics unless a <= b <= len
DrainOk(s, a, b) == a <= b /\ b <= Len(s)

Drain(s, a, b) == SubSeq(s, 1, a) \o SubSeq(s, b + 1, Len(s))

PopIndex(s, idx) ==
  IF idx < Len(s)
  THEN [set |-> VecRemove(s, idx), ret |-> << s[idx + 1] >>]
  ELSE [set |-> s, ret |-> << >>]

\* split_at with the boundary test dropped: a split at a range's start
\* inserts the empty range at..at
SplitAtNoStartTest(s, at) ==
  LET cand == {i \in 1..Len(s) : s[i].start <= at}
  IN IF cand = {} THEN [set |-> s, ret |-> << >>]
     ELSE LET i == SetMax(cand)
          IN IF ~(at < s[i].end) THEN [set |-> s, ret |-> << >>]
             ELSE [set |-> VecInsert([s EXCEPT ![i] = Range(s[i].start, at)],
                                     i, Range(at, s[i].end)),
                   ret |-> <<i - 1, i>>]

\* split_at with at <= range.end for at < range.end
SplitAtEndIncluded(s, at) ==
  LET cand == {i \in 1..Len(s) : s[i].start <= at}
  IN IF cand = {} THEN [set |-> s, ret |-> << >>]
     ELSE LET i == SetMax(cand)
          IN IF ~(at <= s[i].end) THEN [set |-> s, ret |-> << >>]
             ELSE IF s[i].start # at
                  THEN [set |-> VecInsert([s EXCEPT ![i] = Range(s[i].start, at)],
                                          i, Range(at, s[i].end)),
                        ret |-> <<i - 1, i>>]
                  ELSE [set |-> s, ret |-> <<i - 1, i - 1>>]

\* The last range (in Vec order) with start <= at, if at < its end; ret is
\* << >> for None and <<left, right>> for Some((left, right)).
SplitAt(s, at) ==
  LET cand == {i \in 1..Len(s) : s[i].start <= at}
  IN IF cand = {} THEN [set |-> s, ret |-> << >>]
     ELSE LET i == SetMax(cand)
          IN IF ~(at < s[i].end) THEN [set |-> s, ret |-> << >>]
             ELSE IF s[i].start # at
                  THEN [set |-> VecInsert([s EXCEPT ![i] = Range(s[i].start, at)],
                                          i, Range(at, s[i].end)),
                        ret |-> <<i - 1, i>>]
                  ELSE [set |-> s, ret |-> <<i - 1, i - 1>>]

End(s) == IF Len(s) = 0 THEN 0 ELSE s[Len(s)].end

Start(s) == IF Len(s) = 0 THEN 0 ELSE s[1].start

FullRange(s) == Range(Start(s), End(s))

\* A RangeBounds bound: kind is "Unbounded", "Included" or "Excluded"
Bound(kind, x) == [kind |-> kind, x |-> x]

StartBound(s, b) ==
  IF b.kind = "Unbounded" THEN Start(s)
  ELSE IF b.kind = "Included" THEN b.x ELSE b.x + 1

EndBound(s, b) ==
  IF b.kind = "Unbounded" THEN End(s)
  ELSE IF b.kind = "Included" THEN b.x + 1 ELSE b.x

\* The range handed to drain, as [none, a, b] (none: the early return of the
\* (None, None) case), computed on the set left by the two split_at calls.
DrainRange(s, a, b, start, end) ==
  IF a.ret # << >> /\ b.ret # << >> THEN [none |-> FALSE, a |-> a.ret[2], b |-> b.ret[2]]
  ELSE IF a.ret # << >> THEN [none |-> FALSE, a |-> a.ret[2], b |-> Len(b.set)]
  ELSE IF b.ret # << >> THEN [none |-> FALSE, a |-> 0, b |-> b.ret[2]]
  ELSE LET full_range == FullRange(b.set)
       IN IF full_range.start < start /\ end < full_range.end
          THEN [none |-> FALSE, a |-> 0, b |-> Len(b.set)]
          ELSE [none |-> TRUE, a |-> 0, b |-> 0]

\* remove_range: the set it leaves, and whether drain panicked
RemoveRange(s, sb, eb) ==
  LET start == StartBound(s, sb)
      end == EndBound(s, eb)
  IN IF end <= start THEN [set |-> s, panic |-> FALSE]
     ELSE LET a == SplitAt(s, start)
              b == SplitAt(a.set, end)
              r == DrainRange(s, a, b, start, end)
          IN IF r.none THEN [set |-> b.set, panic |-> FALSE]
             ELSE IF DrainOk(b.set, r.a, r.b)
                  THEN [set |-> Drain(b.set, r.a, r.b), panic |-> FALSE]
                  ELSE [set |-> b.set, panic |-> TRUE]

\* The columns a set covers
Covered(s) == UNION { s[i].start .. (s[i].end - 1) : i \in 1..Len(s) }

\* Order, disjointness and non-emptiness of the stored ranges
ValidSet(s) ==
  /\ \A i \in 1..Len(s) : s[i].start < s[i].end
  /\ \A i \in 1..(Len(s) - 1) : s[i].end <= s[i + 1].start

(***************************************************************************)
(* Values of the variables a specification does not use.                   *)
(***************************************************************************)
NoCall == [op |-> "new", at |-> 0, sb |-> Bound("Unbounded", 0),
           eb |-> Bound("Unbounded", 0), ret |-> << >>, pre |-> << >>]

IdleSet == set = << >> /\ last = NoCall
IdleRows == rows = << >> /\ rows0 = << >>
IdleMask == msk = << >>
IdleSort == img = << >> /\ img0 = << >> /\ key = "" /\ scratch = << >> /\ row = 0 /\ ri = 0
IdleRand == lower = 0 /\ upper = 0 /\ cur = 0 /\ width = 0 /\ acc = 0 /\ tick = 0
IdleSplit == part_count = 0
IdleKey == sorting = "" /\ pixel = << >> /\ keyval = 0

(***************************************************************************)
(* Spec: an IntervalSet made by new(size), then any calls of split_at,     *)
(* pop_index and remove_range.                                             *)
(***************************************************************************)
Points == 0..(MaxSize + 1)

Bounds == {Bound("Unbounded", 0)} \cup {Bound(k, x) : k \in {"Included", "Excluded"}, x \in Points}

InitSet ==
  /\ pc = "api"
  /\ \E size \in 1..MaxSize : set = New(size)
  /\ last = NoCall
  /\ IdleRows /\ IdleMask /\ IdleSort /\ IdleRand /\ IdleSplit /\ IdleKey

CallSplitAt ==
  /\ pc = "api"
  /\ \E at \in Points :
       LET r == SplitAt(set, at)
       IN /\ set' = r.set
          /\ last' = [NoCall EXCEPT !.op = "split_at", !.at = at, !.ret = r.ret, !.pre = set]
  /\ UNCHANGED <<pc, rowVars, msk, sortVars, randVars, part_count, keyVars>>

CallPopIndex ==
  /\ pc = "api"
  /\ \E idx \in Points :
       LET r == PopIndex(set, idx)
       IN /\ set' = r.set
          /\ last' = [NoCall EXCEPT !.op = "pop_index", !.at = idx, !.ret = r.ret, !.pre = set]
  /\ UNCHANGED <<pc, rowVars, msk, sortVars, randVars, part_count, keyVars>>

CallRemoveRange ==
  /\ pc = "api"
  /\ \E sb \in Bounds, eb \in Bounds :
       LET r == RemoveRange(set, sb, eb)
       IN /\ set' = r.set
          /\ pc' = IF r.panic THEN "panic" ELSE "api"
          /\ last' = [NoCall EXCEPT !.op = "remove_range", !.sb = sb, !.eb = eb, !.pre = set]
  /\ UNCHANGED <<rowVars, msk, sortVars, randVars, part_count, keyVars>>

NextSet == CallSplitAt \/ CallPopIndex \/ CallRemoveRange

Spec == InitSet /\ [][NextSet]_vars

(***************************************************************************)
(* Claims about the IntervalSet (checked under Spec).                      *)
(***************************************************************************)

\* C1: after any sequence of split_at, pop_index and remove_range calls on
\* new(size), size >= 1, the stored ranges are ordered by ascending start,
\* pairwise disjoint (r[i].end <= r[i+1].start) and non-empty (start < end),
\* and no call has panicked.
C1_InvariantsPreserved ==
  /\ pc # "panic"
  /\ \A i \in 1..Len(set) : set[i].start < set[i].end
  /\ \A i \in 1..(Len(set) - 1) :
       set[i].start < set[i + 1].start /\ set[i].end <= set[i + 1].start

\* C1 witness: a remove_range that carved a gap out of a set of several ranges
C1_Witness ==
  /\ last.op = "remove_range"
  /\ Len(last.pre) >= 2
  /\ Len(set) >= 2
  /\ \E i \in 1..(Len(set) - 1) : set[i].end < set[i + 1].start

\* C2: after remove_range(start..end) with start < end, a column is covered
\* iff it was covered before the call and is not in [start, end).
C2_RemovalExact ==
  (last.op = "remove_range" /\ last.sb.kind = "Included" /\ last.eb.kind = "Excluded"
     /\ last.sb.x < last.eb.x)
  => Covered(set) = Covered(last.pre) \ (last.sb.x .. (last.eb.x - 1))

\* C8: split_at(p) has three outcomes: p strictly inside range i = [s,e)
\* replaces it by [s,p), [p,e) in place and returns (i, i+1); p at the start of
\* range i changes nothing and returns (i, i); p in no range changes nothing
\* and returns None. The covered columns never change and a second
\* split_at(p) leaves the set as the first left it.
C8_SplitOutcomes ==
  last.op = "split_at" =>
    LET p == last.at
        s0 == last.pre
        inside == {i \in 1..Len(s0) : s0[i].start < p /\ p < s0[i].end}
        atStart == {i \in 1..Len(s0) : s0[i].start = p}
    IN /\ \A i \in inside :
            /\ set = SubSeq(s0, 1, i - 1)
                       \o << Range(s0[i].start, p), Range(p, s0[i].end) >>
                       \o SubSeq(s0, i + 1, Len(s0))
            /\ last.ret = <<i - 1, i>>
       /\ \A i \in atStart : set = s0 /\ last.ret = <<i - 1, i - 1>>
       /\ (inside = {} /\ atStart = {}) => (set = s0 /\ last.ret = << >>)
       /\ Covered(set) = Covered(s0)
       /\ SplitAt(set, p).set = set

\* C8 witness: a split strictly inside a range that is not the first one,
\* in a set that has a gap
C8_Witness ==
  /\ last.op = "split_at"
  /\ Len(last.ret) = 2
  /\ last.ret[1] >= 1
  /\ last.ret[2] = last.ret[1] + 1
  /\ \E i \in 1..(Len(last.pre) - 1) : last.pre[i].end < last.pre[i + 1].start

(***************************************************************************)
(* mask                                                                    *)
(***************************************************************************)
MaxMaskArea == 10

MaxMaskRows == 2

\* image::Luma([255]) and image::Luma([0])
White == 255

Black == 0

MaskValues == {Black, White}

\* Iterator::find on row.enumerate() resumed at position pos (0-based): the
\* position of the first pixel equal to v at or after pos, -1 for None
FindFrom(mrow, pos, v) ==
  LET hits == {i \in pos..(Len(mrow) - 1) : mrow[i + 1] = v}
  IN IF hits = {} THEN -1 ELSE SetMin(hits)

\* if let Some((_, to_remove)) = set.split_at(last_white) { set.pop_index(to_remove); }
SplitPopRight(s, at) ==
  LET r == SplitAt(s, at)
  IN IF r.ret # << >> THEN PopIndex(r.set, r.ret[2]).set ELSE r.set

\* if let Some((to_remove, _)) = set.split_at(first_white) { set.pop_index(to_remove); }
SplitPopLeft(s, at) ==
  LET r == SplitAt(s, at)
  IN IF r.ret # << >> THEN PopIndex(r.set, r.ret[1]).set ELSE r.set

\* The while loop of mask on one row, the pixels iterator standing at pos
RECURSIVE MaskLoop(_, _, _)
MaskLoop(s, mrow, pos) ==
  LET last_white == FindFrom(mrow, pos, White)
  IN IF last_white = -1 THEN s
     ELSE LET s1 == SplitAt(s, last_white).set
              first_white == FindFrom(mrow, last_white + 1, Black)
          IN IF first_white = -1
             THEN SplitPopRight(s1, last_white)
             ELSE MaskLoop(SplitPopLeft(s1, first_white), mrow, first_white + 1)

\* mask: mask.rows().zip(intervals)
Mask(intervals, mask) ==
  [i \in 1..Len(intervals) |->
     IF i <= Len(mask) THEN MaskLoop(intervals[i], mask[i], 0) ELSE intervals[i]]

\* IntervalSet::intervals_from_image for an image of the given size
IntervalsFromImage(w, h) == [i \in 1..h |-> New(w)]

InitMask ==
  /\ pc = "call"
  /\ \E w \in 1..MaxMaskArea, h \in 1..MaxMaskRows, mh \in 1..MaxMaskRows :
       /\ w * mh <= MaxMaskArea
       /\ rows = IntervalsFromImage(w, h)
       /\ msk \in [1..mh -> [1..w -> MaskValues]]
  /\ rows0 = rows
  /\ IdleSet /\ IdleSort /\ IdleRand /\ IdleSplit /\ IdleKey

CallMask ==
  /\ pc = "call"
  /\ rows' = Mask(rows, msk)
  /\ pc' = "done"
  /\ UNCHANGED <<setVars, rows0, msk, sortVars, randVars, part_count, keyVars>>

NextMask == CallMask

SpecMask == InitMask /\ [][NextMask]_vars

\* C3: mask() applied to fresh full-width sets leaves each masked row
\* covering exactly the columns whose mask pixel is white (255).
C3_MaskKeepsWhite ==
  pc = "done" =>
    \A i \in 1..Len(rows) :
      i <= Len(msk) =>
        Covered(rows[i]) = {x \in 0..(Len(msk[i]) - 1) : msk[i][x + 1] = White}

(***************************************************************************)
(* Sort keys (sorting.rs). A pixel is the sequence of its u8 channels; the *)
(* casts to u32 lose nothing.                                              *)
(***************************************************************************)
RECURSIVE SeqSum(_)
SeqSum(s) == IF s = << >> THEN 0 ELSE s[1] + SeqSum(Tail(s))

Channels(p) == {p[i] : i \in 1..Len(p)}

\* Pixel::to_luma of the image crate: a Luma or LumaA pixel gives its first
\* channel; an Rgb or Rgba pixel gives 0.2126 r + 0.7152 g + 0.0722 b,
\* truncated (evaluated here in exact arithmetic, the crate uses f32).
ToLuma(p) ==
  IF Len(p) <= 2 THEN p[1]
  ELSE (2126 * p[1] + 7152 * p[2] + 722 * p[3]) \div 10000

Lightness(p) == ToLuma(p)

Intensity(p) == SeqSum(p)

ChanMin(p) == IF p = << >> THEN 0 ELSE SetMin(Channels(p))

ChanMax(p) == IF p = << >> THEN 255 ELSE SetMax(Channels(p))

\* The function named f applied to pixel p
KeyOf(f, p) ==
  CASE f = "lightness" -> Lightness(p)
    [] f = "intensity" -> Intensity(p)
    [] f = "chan_min" -> ChanMin(p)
    [] f = "chan_max" -> ChanMax(p)

(***************************************************************************)
(* sort_image                                                              *)
(***************************************************************************)
MaxWidth == 3

MaxHeight == 2

MaxArea == 4

\* Two-channel pixels: several share a key under every sort key
PixelValues == { <<0, 1>>, <<1, 0>>, <<1, 1>> }

SortKeys == {"intensity", "chan_min", "chan_max"}

\* Insertion that puts x before the elements of equal key
InsertBeforeEqual(sorted, x, f) ==
  LET n == Cardinality({i \in 1..Len(sorted) : KeyOf(f, sorted[i]) < KeyOf(f, x)})
  IN SubSeq(sorted, 1, n) \o <<x>> \o SubSeq(sorted, n + 1, Len(sorted))

\* A sort by key that reverses the elements of equal key
RECURSIVE SortByKeyUnstable(_, _)
SortByKeyUnstable(s, f) ==
  IF s = << >> THEN << >>
  ELSE InsertBeforeEqual(SortByKeyUnstable(SubSeq(s, 1, Len(s) - 1), f), s[Len(s)], f)

\* Insertion of x into a sorted sequence after the elements of key <= key(x)
InsertByKey(sorted, x, f) ==
  LET n == Cardinality({i \in 1..Len(sorted) : KeyOf(f, sorted[i]) <= KeyOf(f, x)})
  IN SubSeq(sorted, 1, n) \o <<x>> \o SubSeq(sorted, n + 1, Len(sorted))

\* slice::sort_by_key: a stable sort, computed here by insertion from the left
RECURSIVE SortByKey(_, _)
SortByKey(s, f) ==
  IF s = << >> THEN << >>
  ELSE InsertByKey(SortByKey(SubSeq(s, 1, Len(s) - 1), f), s[Len(s)], f)

\* scratch left as it is (iter() for drain(..))
ScratchKept(s) == s

\* scratch after scratch.drain(..) has been consumed
ScratchDrained(s) == << >>

ImageWidth(image) == IF Len(image) = 0 THEN 0 ELSE Len(image[1])

\* sub.pixels() of sub_image(range.start, row, range.end - range.start, 1)
SubPixels(image, r, range) == SubSeq(image[r + 1], range.start + 1, range.end)

\* get_pixel panics on a column outside the image
SubPixelsOk(image, range) == range.end <= ImageWidth(image)

\* The position in the row-major buffer that unsafe_put_pixel(x, 0, _) of the
\* sub-image writes (no bounds check)
PutIndex(image, r, range, x) == r * ImageWidth(image) + range.start + x

InBuffer(image, idx) == idx < Len(image) * ImageWidth(image)

\* The image after `for (x, pixel) in scratch.drain(..).enumerate()` has put
\* every pixel that lands in the buffer
PutAll(image, r, range, buf) ==
  LET w == ImageWidth(image)
      src(y, x) == (y - 1) * w + (x - 1) - (r * w + range.start)
  IN [y \in 1..Len(image) |->
       [x \in 1..w |->
          IF src(y, x) >= 0 /\ src(y, x) < Len(buf)
          THEN buf[src(y, x) + 1]
          ELSE image[y][x]]]

\* All sets of ordered, disjoint, non-empty ranges inside [0, w)
AllRanges(w) == {Range(s, e) : s \in 0..w, e \in 0..w} \cap {r \in [start : 0..w, end : 0..w] : r.start < r.end}

SeqOfRanges(R) ==
  CHOOSE s \in [1..Cardinality(R) -> R] :
    \A i \in 1..(Cardinality(R) - 1) : s[i].end <= s[i + 1].start

ValidSets(w) ==
  { SeqOfRanges(R) :
      R \in {Q \in SUBSET AllRanges(w) :
               \A a \in Q, b \in Q : a = b \/ a.end <= b.start \/ b.end <= a.start} }

RECURSIVE SeqsUpTo(_, _)
SeqsUpTo(S, n) ==
  IF n = 0 THEN { << >> }
  ELSE LET shorter == SeqsUpTo(S, n - 1)
       IN shorter \cup {Append(s, x) : s \in {q \in shorter : Len(q) = n - 1}, x \in S}

InitSort ==
  /\ pc = "for_row"
  /\ \E w \in 1..MaxWidth, h \in 1..MaxHeight :
       /\ w * h <= MaxArea
       /\ img \in [1..h -> [1..w -> PixelValues]]
       /\ rows \in SeqsUpTo(ValidSets(w), h + 1)
  /\ img0 = img
  /\ rows0 = rows
  /\ key \in SortKeys
  /\ scratch = << >>
  /\ row = 0
  /\ ri = 0
  /\ IdleSet /\ IdleMask /\ IdleRand /\ IdleSplit /\ IdleKey

\* intervals.into_iter().enumerate().take(image.height()) yields the next row
BeginRow ==
  /\ pc = "for_row"
  /\ row < Len(rows) /\ row < Len(img)
  /\ ri' = 1
  /\ pc' = "for_range"
  /\ UNCHANGED <<setVars, rowVars, msk, img, img0, key, scratch, row, randVars, part_count, keyVars>>

\* ... or is exhausted
Finish ==
  /\ pc = "for_row"
  /\ ~(row < Len(rows) /\ row < Len(img))
  /\ pc' = "done"
  /\ UNCHANGED <<setVars, rowVars, msk, sortVars, randVars, part_count, keyVars>>

\* set.iter() yields the next range: scratch.extend(sub.pixels())
Extract ==
  /\ pc = "for_range"
  /\ ri <= Len(rows[row + 1])
  /\ LET range == rows[row + 1][ri]
     IN IF SubPixelsOk(img, range)
        THEN /\ scratch' = scratch \o SubPixels(img, row, range)
             /\ pc' = "sort"
        ELSE /\ scratch' = scratch
             /\ pc' = "panic"
  /\ UNCHANGED <<setVars, rowVars, msk, img, img0, key, row, ri, randVars, part_count, keyVars>>

\* set.iter() is exhausted
EndRow ==
  /\ pc = "for_range"
  /\ ri > Len(rows[row + 1])
  /\ row' = row + 1
  /\ pc' = "for_row"
  /\ UNCHANGED <<setVars, rowVars, msk, img, img0, key, scratch, ri, randVars, part_count, keyVars>>

\* scratch.sort_by_key(sorting_function.clone())
SortScratch ==
  /\ pc = "sort"
  /\ scratch' = SortByKey(scratch, key)
  /\ pc' = "write"
  /\ UNCHANGED <<setVars, rowVars, msk, img, img0, key, row, ri, randVars, part_count, keyVars>>

\* for (x, pixel) in scratch.drain(..).enumerate() { sub.unsafe_put_pixel(x, 0, pixel) }
\* A write past the buffer is undefined behaviour; the model stops there.
WriteBack ==
  /\ pc = "write"
  /\ LET range == rows[row + 1][ri]
     IN /\ img' = PutAll(img, row, range, scratch)
        /\ pc' = IF \A x \in 0..(Len(scratch) - 1) : InBuffer(img, PutIndex(img, row, range, x))
                 THEN "for_range" ELSE "panic"
  /\ scratch' = ScratchDrained(scratch)
  /\ ri' = ri + 1
  /\ UNCHANGED <<setVars, rowVars, msk, img0, key, row, randVars, part_count, keyVars>>

NextSort == BeginRow \/ Finish \/ Extract \/ EndRow \/ SortScratch \/ WriteBack

SpecSort == InitSort /\ [][NextSort]_vars

(***************************************************************************)
(* Claims about sort_image (checked under SpecSort).                       *)
(***************************************************************************)
\* The pixels of s whose key is k, in their order in s, for k = from, from + 1, ..., upto
RECURSIVE ByKeyThenPosition(_, _, _, _)
ByKeyThenPosition(s, f, from, upto) ==
  IF from > upto THEN << >>
  ELSE LET HasKey(p) == KeyOf(f, p) = from
       IN SelectSeq(s, HasKey) \o ByKeyThenPosition(s, f, from + 1, upto)

MaxKeyIn(s, f) == IF s = << >> THEN 0 ELSE SetMax({KeyOf(f, s[i]) : i \in 1..Len(s)})

Occurrences(s, p) == Cardinality({i \in 1..Len(s) : s[i] = p})

\* The rows sort_image processes: below the image height and the collection length
SortedRows == {r \in 1..Len(img) : r <= Len(rows)}

\* C4: after sort_image, in every processed row every stored range [s,e)
\* holds a permutation of the pixels it held before, in non-decreasing key
\* order, pixels of equal key in their original left-to-right order.
C4_IntervalsStablySorted ==
  pc = "done" =>
    \A r \in SortedRows :
      \A i \in 1..Len(rows[r]) :
        LET before == SubSeq(img0[r], rows[r][i].start + 1, rows[r][i].end)
            after == SubSeq(img[r], rows[r][i].start + 1, rows[r][i].end)
        IN /\ \A p \in PixelValues : Occurrences(after, p) = Occurrences(before, p)
           /\ \A a \in 1..(Len(after) - 1) : KeyOf(key, after[a]) <= KeyOf(key, after[a + 1])
           /\ after = ByKeyThenPosition(before, key, 0, MaxKeyIn(before, key))

\* C4 witness: a finished call that reordered a range holding two different
\* pixels of equal key
C4_Witness ==
  /\ pc = "done"
  /\ \E r \in SortedRows :
       \E i \in 1..Len(rows[r]) :
         LET before == SubSeq(img0[r], rows[r][i].start + 1, rows[r][i].end)
             after == SubSeq(img[r], rows[r][i].start + 1, rows[r][i].end)
         IN /\ after # before
            /\ \E a \in 1..Len(before), b \in 1..Len(before) :
                 a < b /\ before[a] # before[b] /\ KeyOf(key, before[a]) = KeyOf(key, before[b])

\* C10: at every point of sort_image, a pixel outside every range of its
\* row's set, or in a row at or beyond the collection length, has its
\* original value; only rows below the image height and the collection
\* length are visited; the scratch buffer is empty when a range's extraction
\* starts; every range holds the pixels it held at the start (none came from
\* another range or row); and no write left the buffer.
C10_NothingOutsideIntervals ==
  /\ pc # "panic"
  /\ \A r \in 1..Len(img) :
       \A x \in 1..Len(img[r]) :
         (r > Len(rows) \/ (x - 1) \notin Covered(rows[r])) => img[r][x] = img0[r][x]
  /\ pc \in {"for_range", "sort", "write"} => (row < Len(img) /\ row < Len(rows))
  /\ pc \in {"for_row", "for_range", "done"} => scratch = << >>
  /\ \A r \in SortedRows :
       \A i \in 1..Len(rows[r]) :
         \A p \in PixelValues :
           Occurrences(SubSeq(img[r], rows[r][i].start + 1, rows[r][i].end), p)
             = Occurrences(SubSeq(img0[r], rows[r][i].start + 1, rows[r][i].end), p)

\* C10 witness: a finished call on a one-row image with a collection of two
\* entries (one beyond the image height) that reordered a range of the row
\* and left a column of the row outside every range
C10_Witness ==
  /\ pc = "done"
  /\ Len(img) = 1
  /\ Len(rows) = 2
  /\ Len(rows[2]) >= 1
  /\ img[1] # img0[1]
  /\ \E x \in 0..(Len(img[1]) - 1) : x \notin Covered(rows[1])

(***************************************************************************)
(* random                                                                  *)
(***************************************************************************)
MaxRandWidth == 3

MaxRandRows == 2

MaxUpper == 3

\* gen_range with the lower bound one too small
GenRangeFromBelow(lo, hi) == (IF lo > 0 THEN lo - 1 ELSE 0)..(hi - 1)

\* The values rand::thread_rng().gen_range(lower, upper) can return, lower < upper
GenRange(lo, hi) == lo..(hi - 1)

InitRandom ==
  /\ pc = "for_set"
  /\ \E w \in 1..MaxRandWidth, h \in 1..MaxRandRows : rows = IntervalsFromImage(w, h)
  /\ rows0 = rows
  /\ lower \in 0..MaxUpper
  /\ upper \in 0..MaxUpper
  /\ cur = 0 /\ width = 0 /\ acc = 0 /\ tick = 0
  /\ IdleSet /\ IdleMask /\ IdleSort /\ IdleSplit /\ IdleKey

\* for set in intervals: the next set; let width = set.end(); let mut acc = 0
RandomBeginSet ==
  /\ pc = "for_set"
  /\ cur < Len(rows)
  /\ width' = End(rows[cur + 1])
  /\ acc' = 0
  /\ pc' = "while"
  /\ UNCHANGED <<setVars, rowVars, msk, sortVars, lower, upper, cur, tick, part_count, keyVars>>

\* for set in intervals: exhausted, random returns
RandomReturn ==
  /\ pc = "for_set"
  /\ cur >= Len(rows)
  /\ pc' = "done"
  /\ UNCHANGED <<setVars, rowVars, msk, sortVars, randVars, part_count, keyVars>>

\* One iteration of the while loop; the generator's state advances with the draw
RandomDraw ==
  /\ pc = "while"
  /\ acc < width
  /\ lower < upper
  /\ \E d \in GenRange(lower, upper) :
       /\ acc' = acc + d
       /\ rows' = [rows EXCEPT ![cur + 1] = SplitAt(@, acc + d).set]
  /\ tick' = 1 - tick
  /\ UNCHANGED <<pc, setVars, rows0, msk, sortVars, lower, upper, cur, width, part_count, keyVars>>

\* gen_range panics when lower >= upper
RandomPanic ==
  /\ pc = "while"
  /\ acc < width
  /\ lower >= upper
  /\ pc' = "panic"
  /\ UNCHANGED <<setVars, rowVars, msk, sortVars, randVars, part_count, keyVars>>

\* while acc < width: the condition fails
RandomEndWhile ==
  /\ pc = "while"
  /\ acc >= width
  /\ cur' = cur + 1
  /\ pc' = "for_set"
  /\ UNCHANGED <<setVars, rowVars, msk, sortVars, lower, upper, width, acc, tick, part_count, keyVars>>

NextRandom == RandomBeginSet \/ RandomReturn \/ RandomDraw \/ RandomPanic \/ RandomEndWhile

\* The program is a single thread that keeps running: a step that can be
\* taken is taken
SpecRandom == InitRandom /\ [][NextRandom]_vars /\ WF_vars(NextRandom)

\* C5: for 0 < lower < upper, random() on fresh full-width sets returns, and
\* then each row's ranges start at 0, abut one another and end at the width
\* (total length equal to the width).
C5_RandomTerminatesAndCovers ==
  /\ (0 < lower /\ lower < upper) ~> (pc = "done")
  /\ [](  (pc = "done" /\ 0 < lower /\ lower < upper)
          => \A i \in 1..Len(rows) :
               /\ Len(rows[i]) >= 1
               /\ rows[i][1].start = 0
               /\ rows[i][Len(rows[i])].end = rows0[i][1].end
               /\ \A j \in 1..Len(rows[i]) : rows[i][j].start < rows[i][j].end
               /\ \A j \in 1..(Len(rows[i]) - 1) : rows[i][j].end = rows[i][j + 1].start )

\* C5 witness: a returned call with valid parameters that partitioned both
\* rows of a two-row collection
C5_Witness ==
  /\ pc = "done"
  /\ 0 < lower /\ lower < upper
  /\ Len(rows) = 2
  /\ Len(rows[1]) >= 2
  /\ Len(rows[2]) >= 2
  /\ rows[1] # rows[2]

\* C6: with lower >= upper or lower = 0, random() on rows of width >= 1
\* never loops forever: it returns or rejects its input.
C6_DegenerateNeverLoops ==
  (lower >= upper \/ lower = 0) ~> (pc \in {"done", "panic"})

(***************************************************************************)
(* split_equal                                                             *)
(***************************************************************************)
MaxSplitRows == 3

MaxSplitWidth == 2

MaxParts == 4

\* A division that rounds up
DivRoundingUp(a, b) == IF b = 0 THEN -1 ELSE (a + b - 1) \div b

\* usize::checked_div: -1 stands for None
CheckedDiv(a, b) == IF b = 0 THEN -1 ELSE a \div b

\* for id in 0..part_count { set.split_at(id * width); } from id on
RECURSIVE SplitIds(_, _, _, _)
SplitIds(s, id, count, w) ==
  IF id >= count THEN s
  ELSE SplitIds(SplitAt(s, id * w).set, id + 1, count, w)

SplitEqual(intervals, count) ==
  LET w == CheckedDiv(Len(intervals), count)
  IN IF w = -1 THEN intervals
     ELSE [i \in 1..Len(intervals) |-> SplitIds(intervals[i], 0, count, w)]

InitSplit ==
  /\ pc = "call"
  /\ \E w \in 1..MaxSplitWidth : rows \in SeqsUpTo(ValidSets(w), MaxSplitRows)
  /\ rows0 = rows
  /\ part_count \in 0..MaxParts
  /\ IdleSet /\ IdleMask /\ IdleSort /\ IdleRand /\ IdleKey

CallSplitEqual ==
  /\ pc = "call"
  /\ rows' = SplitEqual(rows, part_count)
  /\ pc' = "done"
  /\ UNCHANGED <<setVars, rows0, msk, sortVars, randVars, part_count, keyVars>>

NextSplit == CallSplitEqual

SpecSplit == InitSplit /\ [][NextSplit]_vars

\* C9: split_equal returns for every part_count >= 0; it leaves every row's
\* set ordered, disjoint and without empty ranges, covering the columns it
\* covered; and with part_count 0 or above the row count it changes no set.
C9_SplitEqualSafe ==
  pc = "done" =>
    /\ Len(rows) = Len(rows0)
    /\ \A i \in 1..Len(rows) :
         /\ \A j \in 1..Len(rows[i]) : rows[i][j].start < rows[i][j].end
         /\ \A j \in 1..(Len(rows[i]) - 1) : rows[i][j].end <= rows[i][j + 1].start
         /\ Covered(rows[i]) = Covered(rows0[i])
    /\ (part_count = 0 \/ part_count > Len(rows0)) => rows = rows0

\* C9 witness: a call with 1 < part_count <= row count that split a range
C9_Witness ==
  /\ pc = "done"
  /\ 1 < part_count /\ part_count <= Len(rows0)
  /\ \E i \in 1..Len(rows) : Len(rows[i]) > Len(rows0[i])

(***************************************************************************)
(* The sort-key selector of main.rs                                        *)
(***************************************************************************)
ChannelValues == {0, 100, 255}

\* image::open(..).to_rgba(): four channels
RgbaPixels == [1..4 -> ChannelValues]

SortingArgs == {"lightness", "intensity", "minimum", "maximum", "hue"}

\* <SortingMode as FromStr>::from_str
SortingModeFromStr(s) ==
  CASE s = "lightness" -> "Lightness"
    [] s = "intensity" -> "Intensity"
    [] s = "minimum" -> "Minimum"
    [] s = "maximum" -> "Maximum"
    [] OTHER -> "Err"

\* SortingMode::function: the name of the function of sorting.rs it returns
SortingModeFunction(mode) ==
  CASE mode = "Lightness" -> "lightness"
    [] mode = "Intensity" -> "intensity"
    [] mode = "Minimum" -> "chan_max"
    [] mode = "Maximum" -> "chan_min"

InitKey ==
  /\ pc = "call"
  /\ sorting \in SortingArgs
  /\ pixel \in RgbaPixels
  /\ keyval = 0
  /\ IdleSet /\ IdleRows /\ IdleMask /\ IdleSort /\ IdleRand /\ IdleSplit

\* SortingMode::from_str(..).unwrap().function(), then the function on a pixel
SelectAndApplyKey ==
  /\ pc = "call"
  /\ LET mode == SortingModeFromStr(sorting)
     IN IF mode = "Err"
        THEN pc' = "panic" /\ keyval' = keyval
        ELSE pc' = "done" /\ keyval' = KeyOf(SortingModeFunction(mode), pixel)
  /\ UNCHANGED <<setVars, rowVars, msk, sortVars, randVars, part_count, sorting, pixel>>

NextKey == SelectAndApplyKey

SpecKey == InitKey /\ [][NextKey]_vars

\* C7: each --sorting mode selects its namesake key: "minimum" the pixel's
\* minimum channel value, "maximum" its maximum channel value, "lightness"
\* its lightness and "intensity" the sum of its channels.
C7_ModeSelectsNamesake ==
  pc = "done" =>
    /\ sorting = "minimum" => keyval = SetMin(Channels(pixel))
    /\ sorting = "maximum" => keyval = SetMax(Channels(pixel))
    /\ sorting = "lightness" => keyval = Lightness(pixel)
    /\ sorting = "intensity" => keyval = pixel[1] + pixel[2] + pixel[3] + pixel[4]

(***************************************************************************)
(* mask and threshold on sets that are already divided or carved, as main  *)
(* runs them: an optional mask(), then threshold(), which calls mask()     *)
(* again. The collection holds two sets covering the same columns, and     *)
(* the mask and the image have two equal rows, so both sets meet the same  *)
(* mask row.                                                               *)
(***************************************************************************)
MaxCarveWidth == 3

\* Gray values of a mask file: black, white and one that is neither
CarveMaskValues == {Black, 128, White}

\* One-channel pixels and the thresholds tried on them
CarveLumas == {0, 1}

CarveThresholds == 0..2

\* threshold: grayscale(image), each pixel white iff low <= luma < high, then mask
Threshold(intervals, image, low, high) ==
  LET gray == [y \in 1..Len(image) |->
                 [x \in 1..Len(image[y]) |->
                    IF low <= ToLuma(image[y][x]) /\ ToLuma(image[y][x]) < high
                    THEN White ELSE Black]]
  IN [set |-> Mask(intervals, gray), gray |-> gray]

InitCarve ==
  /\ pc = "call"
  /\ \E w \in 1..MaxCarveWidth :
       /\ \E a \in ValidSets(w), b \in ValidSets(w) :
            Covered(a) = Covered(b) /\ rows = <<a, b>>
       /\ \E m \in [1..w -> CarveMaskValues] : msk = <<m, m>>
       /\ \E g \in [1..w -> CarveLumas] : img = <<[x \in 1..w |-> <<g[x]>>], [x \in 1..w |-> <<g[x]>>]>>
  /\ rows0 = rows
  /\ img0 = img
  /\ lower \in CarveThresholds
  /\ upper \in CarveThresholds
  /\ key = "" /\ scratch = << >> /\ row = 0 /\ ri = 0
  /\ cur = 0 /\ width = 0 /\ acc = 0 /\ tick = 0
  /\ IdleSet /\ IdleSplit /\ IdleKey

\* IntervalFunction::Threshold => interval::threshold(&mut intervals, &image, lower, upper),
\* with or without the mask() of --mask before it; msk becomes the binary
\* image threshold hands to mask
CallThreshold ==
  /\ pc \in {"call", "done"}
  /\ LET r == Threshold(rows, img, lower, upper)
     IN /\ rows' = r.set
        /\ msk' = r.gray
  /\ rows0' = rows
  /\ pc' = "thresholded"
  /\ UNCHANGED <<setVars, sortVars, randVars, part_count, keyVars>>

NextCarve == CallMask \/ CallThreshold

SpecCarve == InitCarve /\ [][NextCarve]_vars

\* C11: the columns mask() leaves covered depend only on the mask row and on
\* the columns the input set covers: two sets covering the same columns,
\* given the same mask row (by mask() or by threshold()), cover the same
\* columns afterwards.
C11_MaskIgnoresPartition ==
  (pc \in {"done", "thresholded"} /\ Covered(rows0[1]) = Covered(rows0[2]))
    => Covered(rows[1]) = Covered(rows[2])

====
